---------------------------- MODULE Spec2Model ----------------------------
(***************************************************************************)
(* Model of the message decoding / encoding core of uniot-mqtt-explorer:   *)
(*   - the decoder registry and findDecoder        (model/TopicViewModel)  *)
(*   - the per-topic TopicViewModel and the useDecoder hook                *)
(*   - CborDecoder (canDecodeData, decode, isCoseSign1, parseCoseSign1)    *)
(*   - CborCoseEncoder (encodeCoseSign1)                                   *)
(*                                                                         *)
(* Bytes are integers 0..255, a buffer is a sequence of bytes, a JS string *)
(* is the sequence of its character codes.                                 *)
(***************************************************************************)
EXTENDS Integers, Sequences, FiniteSets, TLC

(***************************************************************************)
(* Bounds of the model.                                                    *)
(***************************************************************************)
\* longest buffer of the exhaustively enumerated byte buffers
MaxBufLen == 3
\* longest COSE signature fed to the decoder
MaxSigLen == 17
\* longest undecodable protected-header / payload byte string
MaxRawLen == 33
\* most deferred onDecoderChange notifications pending at once
MaxPending == 2
\* highest value of the reference counter
MaxRefs == 2
\* publish attempts made in the Publish panel
MaxAttempts == 3
\* longest signature (in bytes) whose hex / base64 text is given to the encoder
MaxSigBytes == 4

(***************************************************************************)
(* Generic sequence helpers.                                               *)
(***************************************************************************)
Min(a, b) == IF a <= b THEN a ELSE b

\* Uint8Array.prototype.slice(0, n) / Array.prototype.slice(0, n)
Slice0(s, n) == SubSeq(s, 1, Min(n, Len(s)))

\* the bytes of s from position i (1-based) to the end
Drop(s, i) == SubSeq(s, i, Len(s))

RECURSIVE Repeat(_, _)
Repeat(x, n) == IF n = 0 THEN <<>> ELSE <<x>> \o Repeat(x, n - 1)

\* all sequences over S of length 0..n
SeqsUpTo(S, n) == UNION {[1..k -> S] : k \in 0..n}

(***************************************************************************)
(* JavaScript values as produced by cbor.decode / JSON.parse.              *)
(* Every value is a record of one shape:                                   *)
(*   k     the kind: "int" "bstr" "text" "array" "map" "pair" "tagged"     *)
(*         "null" "undefined" "bool"                                       *)
(*   n     the number (int, bool), or the tag number (tagged)              *)
(*   b     the bytes (bstr: Buffer) or the character codes (text)          *)
(*   items the elements (array), the pairs (map), <<key, value>> (pair),   *)
(*         <<value>> (tagged)                                              *)
(***************************************************************************)
VInt(n) == [k |-> "int", n |-> n, b |-> <<>>, items |-> <<>>]
VBstr(bytes) == [k |-> "bstr", n |-> 0, b |-> bytes, items |-> <<>>]
VText(chars) == [k |-> "text", n |-> 0, b |-> chars, items |-> <<>>]
VArray(elems) == [k |-> "array", n |-> 0, b |-> <<>>, items |-> elems]
VPair(key, val) == [k |-> "pair", n |-> 0, b |-> <<>>, items |-> <<key, val>>]
VMap(pairs) == [k |-> "map", n |-> 0, b |-> <<>>, items |-> pairs]
VTagged(tag, val) == [k |-> "tagged", n |-> tag, b |-> <<>>, items |-> <<val>>]
VNull == [k |-> "null", n |-> 0, b |-> <<>>, items |-> <<>>]
VUndefined == [k |-> "undefined", n |-> 0, b |-> <<>>, items |-> <<>>]
VBool(t) == [k |-> "bool", n |-> IF t THEN 1 ELSE 0, b |-> <<>>, items |-> <<>>]

\* character codes of the property names the code tests with `in`
StrTag == <<116, 97, 103>>
StrValue == <<118, 97, 108, 117, 101>>
StrPayload == <<112, 97, 121, 108, 111, 97, 100>>

(***************************************************************************)
(* The cbor library (npm `cbor`): cbor.encode and cbor.decode, for the     *)
(* heads the model's inputs use: major types 0..7 with the argument in the *)
(* head (< 24) or in one following byte (24).                              *)
(***************************************************************************)
\* head of an item of major type mt with argument n (n < 256)
CborHead(mt, n) == IF n < 24 THEN <<mt * 32 + n>> ELSE <<mt * 32 + 24, n>>

RECURSIVE CborEncode(_)
RECURSIVE CborEncodeAll(_)
\* cbor.encode(value)
CborEncode(v) ==
  CASE v.k = "int" -> IF v.n >= 0 THEN CborHead(0, v.n) ELSE CborHead(1, -v.n - 1)
    [] v.k = "bstr" -> CborHead(2, Len(v.b)) \o v.b
    [] v.k = "text" -> CborHead(3, Len(v.b)) \o v.b
    [] v.k = "array" -> CborHead(4, Len(v.items)) \o CborEncodeAll(v.items)
    [] v.k = "map" -> CborHead(5, Len(v.items)) \o CborEncodeAll(v.items)
    [] v.k = "pair" -> CborEncode(v.items[1]) \o CborEncode(v.items[2])
    [] v.k = "tagged" -> CborHead(6, v.n) \o CborEncode(v.items[1])
    [] v.k = "bool" -> <<244 + v.n>>
    [] v.k = "null" -> <<246>>
    [] OTHER -> <<247>>

CborEncodeAll(vs) ==
  IF vs = <<>> THEN <<>> ELSE CborEncode(Head(vs)) \o CborEncodeAll(Tail(vs))

\* result of reading one item: ok, the value, the bytes left
Parsed(v, rest) == [ok |-> TRUE, v |-> v, rest |-> rest]
ParseFail == [ok |-> FALSE, v |-> VNull, rest |-> <<>>]

RECURSIVE CborItem(_)
RECURSIVE CborItems(_, _, _)
\* one data item at the start of buf ("Insufficient data" and unsupported
\* heads fail)
CborItem(buf) ==
  IF buf = <<>> THEN ParseFail
  ELSE
    LET mt == buf[1] \div 32
        ai == buf[1] % 32
        hlen == IF ai < 24 THEN 1 ELSE 2
        arg == IF ai < 24 THEN ai ELSE IF Len(buf) >= 2 THEN buf[2] ELSE 0
        body == Drop(buf, hlen + 1)
    IN  IF mt = 7
          THEN CASE ai = 20 -> Parsed(VBool(FALSE), body)
                 [] ai = 21 -> Parsed(VBool(TRUE), body)
                 [] ai = 22 -> Parsed(VNull, body)
                 [] ai = 23 -> Parsed(VUndefined, body)
                 [] OTHER -> ParseFail
        ELSE IF ai > 24 \/ Len(buf) < hlen THEN ParseFail
        ELSE
          CASE mt = 0 -> Parsed(VInt(arg), body)
            [] mt = 1 -> Parsed(VInt(-1 - arg), body)
            [] mt = 2 -> IF Len(body) < arg THEN ParseFail
                         ELSE Parsed(VBstr(SubSeq(body, 1, arg)), Drop(body, arg + 1))
            [] mt = 3 -> IF Len(body) < arg THEN ParseFail
                         ELSE Parsed(VText(SubSeq(body, 1, arg)), Drop(body, arg + 1))
            [] mt = 4 -> LET r == CborItems(body, arg, <<>>)
                         IN  IF r.ok THEN Parsed(VArray(r.v), r.rest) ELSE ParseFail
            [] mt = 5 -> LET r == CborItems(body, 2 * arg, <<>>)
                         IN  IF r.ok
                               THEN Parsed(VMap([i \in 1..arg |->
                                       VPair(r.v[2 * i - 1], r.v[2 * i])]), r.rest)
                               ELSE ParseFail
            [] OTHER -> LET r == CborItem(body)
                        IN  IF r.ok THEN Parsed(VTagged(arg, r.v), r.rest) ELSE ParseFail

\* n items in a row, appended to acc
CborItems(buf, n, acc) ==
  IF n = 0 THEN [ok |-> TRUE, v |-> acc, rest |-> buf]
  ELSE LET r == CborItem(buf)
       IN  IF r.ok THEN CborItems(r.rest, n - 1, Append(acc, r.v)) ELSE ParseFail

\* cbor.decode(buffer) = decodeFirstSync: one item, and it throws on bytes
\* left over ("Unexpected data") as on missing ones
CborDecodeLib(buf) ==
  LET r == CborItem(buf)
  IN  IF r.ok /\ r.rest = <<>> THEN [ok |-> TRUE, v |-> r.v] ELSE [ok |-> FALSE, v |-> VNull]

(***************************************************************************)
(* JavaScript tests on values, as isCoseSign1 / parseCoseSign1 use them.   *)
(***************************************************************************)
\* an absent property (undefined)
Absent == [absent |-> TRUE]

\* `x instanceof Uint8Array || x instanceof Buffer`
IsBytes(v) == v.k = "bstr"

\* `typeof x === 'object'` (true of null, arrays, buffers, Tagged, objects)
TypeofObject(v) == v.k \in {"bstr", "array", "map", "tagged", "null"}

\* JS truthiness of a value
Truthy(v) ==
  CASE v.k \in {"null", "undefined"} -> FALSE
    [] v.k \in {"int", "bool"} -> v.n # 0
    [] v.k = "text" -> v.b # <<>>
    [] OTHER -> TRUE

\* cbor.decode gives a plain object for a map whose keys are all text
\* strings, and a Map instance (no own keys for `in`) otherwise
PlainObject(v) == v.k = "map" /\ \A i \in 1..Len(v.items) : v.items[i].items[1].k = "text"

\* `name in x` for an object x: a Tagged instance has tag and value
HasProp(v, name) ==
  \/ v.k = "tagged" /\ name \in {StrTag, StrValue}
  \/ PlainObject(v) /\ \E i \in 1..Len(v.items) : v.items[i].items[1].b = name

\* `x[name]` where HasProp(x, name); the last pair of a key wins
Prop(v, name) ==
  IF v.k = "tagged"
    THEN IF name = StrTag THEN VInt(v.n) ELSE v.items[1]
    ELSE LET at == {i \in 1..Len(v.items) : v.items[i].items[1].b = name}
             last == CHOOSE i \in at : \A j \in at : j <= i
         IN  v.items[last].items[2]

\* the test both helpers make: `decoded && typeof decoded === 'object' &&
\* 'tag' in decoded && 'value' in decoded`
LooksTagged(decoded) ==
  /\ Truthy(decoded)
  /\ TypeofObject(decoded)
  /\ HasProp(decoded, StrTag)
  /\ HasProp(decoded, StrValue)

(***************************************************************************)
(* Program constants of CborDecoder.ts.                                    *)
(***************************************************************************)
\* CBOR tag of COSE_Sign1 and the alternative the decoder accepts
TagCoseSign1 == 18
TagCoseAlt == 98
\* bytes of the signature preview
SigPreviewLen == 16
\* bytes of the protected-header raw preview
RawPreviewLen == 32
\* bytes of the binary payload preview
PayloadPreviewLen == 32

(***************************************************************************)
(* CborDecoder.ts                                                          *)
(***************************************************************************)
\* CborDecoder.canDecodeData(data)
CborCanDecodeData(buffer) ==
  IF Len(buffer) = 0 THEN FALSE
  ELSE LET majorType == buffer[1] \div 32
       IN  IF majorType < 0 \/ majorType > 7 THEN FALSE
           ELSE CborDecodeLib(buffer).ok

\* isCoseSign1(decoded)
isCoseSign1(decoded) ==
  LET unwrap == /\ LooksTagged(decoded)
                /\ \/ Prop(decoded, StrTag) = VInt(TagCoseSign1)
                   \/ Prop(decoded, StrTag) = VInt(TagCoseAlt)
      coseArray == IF unwrap THEN Prop(decoded, StrValue) ELSE decoded
  IN  /\ coseArray.k = "array"
      /\ Len(coseArray.items) = 4
      /\ IsBytes(coseArray.items[1])
      /\ TypeofObject(coseArray.items[2])
      /\ coseArray.items[2].k # "null"
      /\ coseArray.items[2].k # "array"
      /\ ~IsBytes(coseArray.items[2])
      /\ (IsBytes(coseArray.items[3]) \/ coseArray.items[3].k = "null")
      /\ IsBytes(coseArray.items[4])

RECURSIVE Utf8ToString(_)
\* Buffer.toString('utf8'): ASCII as is, a two-byte sequence C2..DF 80..BF
\* as its code point, any other byte as U+FFFD
Utf8ToString(bytes) ==
  IF bytes = <<>> THEN <<>>
  ELSE LET b == bytes[1]
       IN  IF b < 128 THEN <<b>> \o Utf8ToString(Tail(bytes))
           ELSE IF /\ b >= 194 /\ b <= 223 /\ Len(bytes) >= 2
                   /\ bytes[2] >= 128 /\ bytes[2] <= 191
             THEN <<(b - 192) * 64 + (bytes[2] - 128)>> \o Utf8ToString(Drop(bytes, 3))
           ELSE <<65533>> \o Utf8ToString(Tail(bytes))

\* /[\x00-\x08\x0E-\x1F\x7F-\x9F]/.test(s)
HasControlChar(s) ==
  \E i \in 1..Len(s) : \/ s[i] <= 8
                       \/ s[i] >= 14 /\ s[i] <= 31
                       \/ s[i] >= 127 /\ s[i] <= 159

\* the protected_headers member parseCoseSign1 builds
ProtectedHeaders(protectedBytes) ==
  IF Len(protectedBytes) > 0
    THEN LET d == CborDecodeLib(protectedBytes)
         IN  IF d.ok
               THEN [_decode_error |-> FALSE, value |-> d.v, _raw_bytes |-> <<>>]
               ELSE [_decode_error |-> TRUE, value |-> VNull,
                     _raw_bytes |-> Slice0(protectedBytes, RawPreviewLen)]
    ELSE [_decode_error |-> FALSE, value |-> VMap(<<>>), _raw_bytes |-> <<>>]

\* the payload member with the text test made before the CBOR decode
CosePayloadTextFirst(payload) ==
  IF payload.k # "null" /\ Len(payload.b) > 0
    THEN LET d == CborDecodeLib(payload.b)
             payloadString == Utf8ToString(payload.b)
         IN  IF Len(payloadString) > 0 /\ ~HasControlChar(payloadString)
               THEN [_type |-> "string", _decoded |-> VText(payloadString),
                     _length |-> 0, _preview |-> <<>>]
             ELSE IF d.ok
               THEN [_type |-> "cbor", _decoded |-> d.v, _length |-> 0, _preview |-> <<>>]
             ELSE [_type |-> "binary", _decoded |-> VNull, _length |-> Len(payload.b),
                   _preview |-> Slice0(payload.b, PayloadPreviewLen)]
    ELSE [_type |-> "null", _decoded |-> VNull, _length |-> 0, _preview |-> <<>>]

\* the payload member parseCoseSign1 builds (payload: a value, null or bstr)
CosePayload(payload) ==
  IF payload.k # "null" /\ Len(payload.b) > 0
    THEN LET d == CborDecodeLib(payload.b)
             payloadString == Utf8ToString(payload.b)
         IN  IF d.ok
               THEN [_type |-> "cbor", _decoded |-> d.v, _length |-> 0, _preview |-> <<>>]
             ELSE IF Len(payloadString) > 0 /\ ~HasControlChar(payloadString)
               THEN [_type |-> "string", _decoded |-> VText(payloadString),
                     _length |-> 0, _preview |-> <<>>]
             ELSE [_type |-> "binary", _decoded |-> VNull, _length |-> Len(payload.b),
                   _preview |-> Slice0(payload.b, PayloadPreviewLen)]
    ELSE [_type |-> "null", _decoded |-> VNull, _length |-> 0, _preview |-> <<>>]

\* the signature_info member, with the signature cut to the whole of it
SignatureInfoUncut(signatureBytes) ==
  [length |-> Len(signatureBytes), preview |-> signatureBytes]

\* the signature_info member parseCoseSign1 builds
SignatureInfo(signatureBytes) ==
  [length |-> Len(signatureBytes), preview |-> Slice0(signatureBytes, SigPreviewLen)]

\* parseCoseSign1(decoded), called where isCoseSign1(decoded) holds
parseCoseSign1(decoded) ==
  LET tagged == LooksTagged(decoded)
      tag == IF tagged THEN Prop(decoded, StrTag) ELSE VNull
      coseArray == IF tagged THEN Prop(decoded, StrValue) ELSE decoded
      protectedBytes == coseArray.items[1].b
      unprotectedHeaders == coseArray.items[2]
      payloadBytes == coseArray.items[3]
      signatureBytes == coseArray.items[4].b
  IN  [_cose_structure |-> "COSE_Sign1",
       _cbor_tag |-> tag,
       protected_headers |-> ProtectedHeaders(protectedBytes),
       unprotected_headers |-> unprotectedHeaders,
       payload |-> CosePayload(payloadBytes),
       signature_info |-> SignatureInfo(signatureBytes)]

\* JSON.stringify(value, null, 2) gives no string for undefined alone
StringifyGivesString(v) == v.k # "undefined"

\* the two envelopes decode builds
SuccessEnvelope(cose, json) ==
  [message |-> [cose |-> cose, json |-> json], decoder |-> "CBOR", error |-> Absent]
ErrorEnvelope(msg) == [message |-> Absent, decoder |-> "NONE", error |-> [text |-> msg]]

\* what a call gives: a returned value, or an exception that left it
Returned(value) == [threw |-> FALSE, value |-> value]
Threw == [threw |-> TRUE, value |-> Absent]

\* no call has returned anything yet
NotRead == [notRead |-> TRUE]

\* the try block of decode. fromStringThrows: whether Base64Message.fromString
\* throws when JSON.stringify gave undefined instead of a string.
CborDecodeTry(buffer, format, fromStringThrows) ==
  LET d == CborDecodeLib(buffer)
  IN  IF ~d.ok THEN Threw
      ELSE IF isCoseSign1(d.v) THEN Returned(SuccessEnvelope(TRUE, parseCoseSign1(d.v)))
      ELSE IF StringifyGivesString(d.v) \/ ~fromStringThrows
        THEN Returned(SuccessEnvelope(FALSE, d.v))
      ELSE Threw

\* decode without its catch: an exception of the try block leaves it
CborDecodeNoCatch(buffer, format, fromStringThrows) ==
  CborDecodeTry(buffer, format, fromStringThrows)

\* CborDecoder.decode(input, format): the try block and its catch
CborDecode(buffer, format, fromStringThrows) ==
  LET r == CborDecodeTry(buffer, format, fromStringThrows)
  IN  IF r.threw THEN Returned(ErrorEnvelope("Failed to decode CBOR")) ELSE r

(***************************************************************************)
(* js-base64 and the hex parsing of CborCoseEncoder.ts, on character codes.*)
(***************************************************************************)
\* [A-Za-z0-9+/]
IsB64Char(c) ==
  \/ c >= 65 /\ c <= 90
  \/ c >= 97 /\ c <= 122
  \/ c >= 48 /\ c <= 57
  \/ c = 43
  \/ c = 47

\* the six bits of a base64 character
B64Val(c) ==
  CASE c >= 65 /\ c <= 90 -> c - 65
    [] c >= 97 /\ c <= 122 -> c - 71
    [] c >= 48 /\ c <= 57 -> c + 4
    [] c = 43 -> 62
    [] OTHER -> 63

\* the base64 character of six bits
B64Char(v) ==
  CASE v < 26 -> v + 65
    [] v < 52 -> v + 71
    [] v < 62 -> v - 4
    [] v = 62 -> 43
    [] OTHER -> 47

RECURSIVE B64EncodeBytes(_)
\* Base64.fromUint8Array(bytes): 3 bytes to 4 characters, padded with =
B64EncodeBytes(bytes) ==
  CASE Len(bytes) = 0 -> <<>>
    [] Len(bytes) = 1 ->
         <<B64Char(bytes[1] \div 4), B64Char((bytes[1] % 4) * 16), 61, 61>>
    [] Len(bytes) = 2 ->
         <<B64Char(bytes[1] \div 4),
           B64Char((bytes[1] % 4) * 16 + bytes[2] \div 16),
           B64Char((bytes[2] % 16) * 4), 61>>
    [] OTHER ->
         <<B64Char(bytes[1] \div 4),
           B64Char((bytes[1] % 4) * 16 + bytes[2] \div 16),
           B64Char((bytes[2] % 16) * 4 + bytes[3] \div 64),
           B64Char(bytes[3] % 64)>> \o B64EncodeBytes(Drop(bytes, 4))

RECURSIVE B64Tidy(_)
\* _unURI / _tidyB64: - and _ become + and /, then every character outside
\* [A-Za-z0-9+/] (padding and whitespace too) is dropped
B64Tidy(chars) ==
  IF chars = <<>> THEN <<>>
  ELSE LET c == IF chars[1] = 45 THEN 43 ELSE IF chars[1] = 95 THEN 47 ELSE chars[1]
       IN  (IF IsB64Char(c) THEN <<c>> ELSE <<>>) \o B64Tidy(Tail(chars))

RECURSIVE B64DecodeChars(_)
\* the bytes of tidied base64 characters: 4 characters to 3 bytes, a rest of
\* 2 or 3 characters to 1 or 2 bytes, a rest of 1 character to none
B64DecodeChars(chars) ==
  LET v(i) == B64Val(chars[i])
      b1 == v(1) * 4 + v(2) \div 16
      b2 == (v(2) % 16) * 16 + v(3) \div 4
      b3 == (v(3) % 4) * 64 + v(4)
  IN  CASE Len(chars) <= 1 -> <<>>
        [] Len(chars) = 2 -> <<b1>>
        [] Len(chars) = 3 -> <<b1, b2>>
        [] OTHER -> <<b1, b2, b3>> \o B64DecodeChars(Drop(chars, 5))

\* Base64.toUint8Array(a). A value that is no string has no replace
\* (TypeError). With Buffer it is Buffer.from(tidied, 'base64'), which never
\* throws; with atob (atobStrict) a tidied length of 4k + 1 throws.
Base64ToUint8Array(a, atobStrict) ==
  IF a.k # "text" THEN Threw
  ELSE LET tidied == B64Tidy(a.b)
       IN  IF atobStrict /\ Len(tidied) % 4 = 1 THEN Threw
           ELSE Returned(B64DecodeChars(tidied))

IsHexChar(c) ==
  \/ c >= 48 /\ c <= 57
  \/ c >= 65 /\ c <= 70
  \/ c >= 97 /\ c <= 102

\* parseInt(digit, 16)
HexVal(c) == IF c <= 57 THEN c - 48 ELSE IF c <= 70 THEN c - 55 ELSE c - 87

\* the character of a hex digit (upper case)
HexChar(v) == IF v < 10 THEN v + 48 ELSE v + 55

\* /\s/
IsSpace(c) == c \in {9, 10, 11, 12, 13, 32}

RECURSIVE StripSpaces(_)
\* .replace(/\s/g, '')
StripSpaces(chars) ==
  IF chars = <<>> THEN <<>>
  ELSE (IF IsSpace(chars[1]) THEN <<>> ELSE <<chars[1]>>) \o StripSpaces(Tail(chars))

\* .replace(/^0x/, '')
Strip0x(chars) ==
  IF Len(chars) >= 2 /\ chars[1] = 48 /\ chars[2] = 120 THEN Drop(chars, 3) ELSE chars

RECURSIVE HexPairs(_)
\* hexString.match(/.{1,2}/g).map(byte => parseInt(byte, 16)), [] for ''
HexPairs(chars) ==
  CASE Len(chars) = 0 -> <<>>
    [] Len(chars) = 1 -> <<HexVal(chars[1])>>
    [] OTHER -> <<HexVal(chars[1]) * 16 + HexVal(chars[2])>> \o HexPairs(Drop(chars, 3))

\* the hex branch of the signature handling (its try block)
HexToBytes(signature) ==
  IF signature.k # "text" THEN Threw
  ELSE LET hexString == StripSpaces(Strip0x(signature.b))
       IN  IF \E i \in 1..Len(hexString) : ~IsHexChar(hexString[i]) THEN Threw
           ELSE Returned(HexPairs(hexString))

(***************************************************************************)
(* CborCoseEncoder.ts: encodeCoseSign1                                     *)
(***************************************************************************)
StrProtectedHeaders ==
  <<112, 114, 111, 116, 101, 99, 116, 101, 100, 95, 104, 101, 97, 100, 101, 114, 115>>
StrUnprotectedHeaders ==
  <<117, 110, 112, 114, 111, 116, 101, 99, 116, 101, 100, 95, 104, 101, 97, 100, 101,
    114, 115>>
StrSignature == <<115, 105, 103, 110, 97, 116, 117, 114, 101>>

\* `name in x` for a value JSON.parse gave (an array has no such key)
JsonHas(v, name) == v.k = "map" /\ HasProp(v, name)

\* `x[name]` for a value JSON.parse gave: undefined when the key is missing
JsonGet(v, name) == IF JsonHas(v, name) THEN Prop(v, name) ELSE VUndefined

\* `x || {}`
OrEmptyObject(v) == IF Truthy(v) THEN v ELSE VMap(<<>>)

EncodeFailure(msg) == [success |-> FALSE, data |-> Absent, error |-> [text |-> msg]]
EncodeSuccess(data) == [success |-> TRUE, data |-> [base64 |-> data], error |-> Absent]

ErrNotJson == "COSE input must be valid JSON with structure: {...}"
ErrNotObject == "COSE input must be a JSON object"
ErrNoPayload == "COSE input must contain a \"payload\" field"
ErrSignature == "Signature must be valid base64 or hex string"

\* the validation of encodeCoseSign1 without its test for the payload key
CoseInputErrorNoPayloadTest(input) ==
  IF ~input.parses THEN ErrNotJson
  ELSE IF ~Truthy(input.value) \/ ~TypeofObject(input.value) THEN ErrNotObject
  ELSE "none"

\* the validation of encodeCoseSign1: the error it returns, or "none"
CoseInputError(input) ==
  IF ~input.parses THEN ErrNotJson
  ELSE IF ~Truthy(input.value) \/ ~TypeofObject(input.value) THEN ErrNotObject
  ELSE IF ~JsonHas(input.value, StrPayload) THEN ErrNoPayload
  ELSE "none"

\* the signature bytes: base64 first, then hex; Threw where both threw
CoseSignatureBytes(signature, atobStrict) ==
  IF ~Truthy(signature) THEN Returned(<<>>)
  ELSE LET b64 == Base64ToUint8Array(signature, atobStrict)
       IN  IF ~b64.threw THEN b64 ELSE HexToBytes(signature)

\* the array encodeCoseSign1 assembles from a validated input
CoseArray(coseData, signatureBytes) ==
  LET protectedHeaders == OrEmptyObject(JsonGet(coseData, StrProtectedHeaders))
      unprotectedHeaders == OrEmptyObject(JsonGet(coseData, StrUnprotectedHeaders))
      protectedBytes == CborEncode(protectedHeaders)
      payloadBytes == CborEncode(JsonGet(coseData, StrPayload))
  IN  VArray(<<VBstr(protectedBytes), unprotectedHeaders, VBstr(payloadBytes),
               VBstr(signatureBytes)>>)

\* encodeCbor refusing a text that is no JSON
encodeCborRejecting(input) ==
  IF input.parses THEN EncodeSuccess(B64EncodeBytes(CborEncode(input.value)))
  ELSE EncodeFailure("CBOR encoding failed: not JSON")

\* encodeCbor(input). input: the text, by what JSON.parse makes of it. No
\* value JSON.parse gives and no string makes cbor.encode throw.
encodeCbor(input) ==
  LET data == IF input.parses THEN input.value ELSE VText(input.text)
      cborBuffer == CborEncode(data)
  IN  EncodeSuccess(B64EncodeBytes(cborBuffer))

\* encodeCoseSign1(input). input: the text, by what JSON.parse makes of it.
encodeCoseSign1(input, atobStrict) ==
  IF CoseInputError(input) # "none" THEN EncodeFailure(CoseInputError(input))
  ELSE LET coseData == input.value
           sig == CoseSignatureBytes(JsonGet(coseData, StrSignature), atobStrict)
       IN  IF sig.threw THEN EncodeFailure(ErrSignature)
           ELSE LET taggedCose == VTagged(TagCoseSign1, CoseArray(coseData, sig.value))
                    cborBuffer == CborEncode(taggedCose)
                IN  EncodeSuccess(B64EncodeBytes(cborBuffer))

\* new Base64Message(data).toBuffer(): the bytes of the base64 text
Base64MessageToBuffer(data) == B64DecodeChars(B64Tidy(data))

(***************************************************************************)
(* publish (actions/Publish.ts): what it hands to showError and what it    *)
(* emits as publish events.                                                *)
(***************************************************************************)
\* publish going on to emit after an encode error
publishNoReturn(state, atobStrict) ==
  LET hasPayload == state.payload.parses \/ state.payload.text # <<>>
      result == IF state.editorMode = "cbor" THEN encodeCbor(state.payload)
                ELSE encodeCoseSign1(state.payload, atobStrict)
      Emit(errors, payload) ==
        [errors |-> errors, emitted |-> <<[topic |-> state.topic, payload |-> payload]>>]
  IN  IF state.topic = Absent THEN [errors |-> <<>>, emitted |-> <<>>]
      ELSE IF ~hasPayload THEN Emit(<<>>, Absent)
      ELSE IF state.editorMode \in {"cbor", "cose"}
        THEN IF ~result.success THEN Emit(<<result.error.text>>, Absent)
             ELSE Emit(<<>>, result.data)
      ELSE Emit(<<>>, [fromString |-> state.payload])

\* publish(connectionId): state.payload is the text, by what JSON.parse
\* makes of it; an empty text is falsy
publish(state, atobStrict) ==
  LET hasPayload == state.payload.parses \/ state.payload.text # <<>>
      result == IF state.editorMode = "cbor" THEN encodeCbor(state.payload)
                ELSE encodeCoseSign1(state.payload, atobStrict)
      Emit(payload) ==
        [errors |-> <<>>, emitted |-> <<[topic |-> state.topic, payload |-> payload]>>]
  IN  IF state.topic = Absent THEN [errors |-> <<>>, emitted |-> <<>>]
      ELSE IF ~hasPayload THEN Emit(Absent)
      ELSE IF state.editorMode \in {"cbor", "cose"}
        THEN IF ~result.success
               THEN [errors |-> <<result.error.text>>, emitted |-> <<>>]
               ELSE Emit(result.data)
      ELSE Emit([fromString |-> state.payload])

\* entries amendToHistory keeps of the filtered history: slice(-7)
HistoryKeep == 7

\* a topic string is truthy when it is there and not empty
TopicGiven(topic) == topic # Absent /\ topic.path # ""

\* amendToHistory(topic, payload) on the history it closed over; the `sent`
\* date of an entry is left out
amendToHistory(history, topic, payload) ==
  LET filteredHistory ==
        SelectSeq(history, LAMBDA e : e.payload # payload \/ e.topic # topic)
      n == Len(filteredHistory)
      sliced == SubSeq(filteredHistory, IF n > HistoryKeep THEN n - HistoryKeep + 1 ELSE 1, n)
  IN  Append(sliced, [topic |-> topic, payload |-> payload])

\* the state publish reads for the props of the panel: the topic is
\* manualTopic ?? selectedTopic.path(), and an empty one is no topic
PanelState(props) ==
  LET topic == IF props.manualTopic # Absent THEN props.manualTopic ELSE props.selectedTopic
  IN  [topic |-> IF TopicGiven(topic) THEN topic ELSE Absent,
       payload |-> props.payload, editorMode |-> props.editorMode]

(***************************************************************************)
(* The decoder registry (decoders/index.ts) and findDecoder.               *)
(* A topic path is the set of decoders whose canDecodeTopic accepts it; a  *)
(* payload is its bytes and the set of decoders, other than CBOR, whose    *)
(* canDecodeData accepts it.                                               *)
(***************************************************************************)
\* export const decoders = [SparkplugDecoder, CborDecoder, BinaryDecoder, StringDecoder]
decoders == <<"Sparkplug", "CBOR", "Binary", "String">>

\* CborDecoder.formats
CborFormats == <<"CBOR">>

\* the formats the other decoders declare, the primary one first
OtherFormats(d) ==
  CASE d = "Sparkplug" -> <<"Sparkplug">>
    [] d = "Binary" -> <<"int8", "int16", "float">>
    [] OTHER -> <<"string">>

\* decoder.formats
formats(d) == IF d = "CBOR" THEN CborFormats ELSE OtherFormats(d)

\* the optional predicates of the other decoders: any of them may accept a
\* path by its name and a payload by its bytes; the path and the payload
\* carry the names of the decoders that accept them
OtherCanDecodeTopic(d, path) == d \in path
OtherCanDecodeData(d, payload) == d \in payload.sniff

\* decoder.canDecodeTopic?.(path): CborDecoder declares none
canDecodeTopic(d, path) == d # "CBOR" /\ OtherCanDecodeTopic(d, path)

\* decoder.canDecodeData?.(payload)
canDecodeData(d, payload) ==
  IF d = "CBOR" THEN CborCanDecodeData(payload.bytes) ELSE OtherCanDecodeData(d, payload)

\* the predicate findDecoder hands to decoders.find
FindPredicate(d, treeNode) ==
  \/ canDecodeTopic(d, treeNode.path)
  \/ treeNode.message.present /\ canDecodeData(d, treeNode.message)

\* { decoder, format: decoder.formats[0] }
TopicDecoder(d) == [decoder |-> d, format |-> formats(d)[1]]

\* findDecoder reading the registry as two passes: topic names first, the
\* payload only when no topic name matched
findDecoderTopicFirst(treeNode) ==
  LET byTopic == {i \in 1..Len(decoders) : canDecodeTopic(decoders[i], treeNode.path)}
      byData == {i \in 1..Len(decoders) :
                   treeNode.message.present /\ canDecodeData(decoders[i], treeNode.message)}
      hits == IF byTopic # {} THEN byTopic ELSE byData
  IN  IF hits = {} THEN Absent
      ELSE TopicDecoder(decoders[CHOOSE i \in hits : \A j \in hits : i <= j])

\* findDecoder taking the last match of the registry instead of the first
findDecoderLastMatch(treeNode) ==
  LET hits == {i \in 1..Len(decoders) : FindPredicate(decoders[i], treeNode)}
  IN  IF hits = {} THEN Absent
      ELSE TopicDecoder(decoders[CHOOSE i \in hits : \A j \in hits : j <= i])

\* findDecoder(node): decoders.find(...) and the binding made of it
findDecoder(treeNode) ==
  LET hits == {i \in 1..Len(decoders) : FindPredicate(decoders[i], treeNode)}
  IN  IF hits = {} THEN Absent
      ELSE TopicDecoder(decoders[CHOOSE i \in hits : \A j \in hits : i <= j])

(***************************************************************************)
(* TopicViewModel (model/TopicViewModel.ts) and the useDecoder hook.       *)
(***************************************************************************)
\* the constructor with the subscription to treeNode.onMessage in place
ConstructorClearsOnMessageOn == TRUE

\* whether the constructor subscribes to treeNode.onMessage to clear the
\* cached decoder: that code is commented out
ConstructorClearsOnMessage == FALSE

\* the getter scheduling its notification also when nothing was found
GetDecoderNotifiesNone(cache, hasOwner, treeNode, pending) ==
  IF cache = Absent
    THEN LET newDecoder == IF hasOwner THEN findDecoder(treeNode) ELSE Absent
         IN  [cache |-> newDecoder, pending |-> Append(pending, newDecoder),
              ret |-> newDecoder, ran |-> hasOwner]
    ELSE [cache |-> cache, pending |-> pending, ret |-> cache, ran |-> FALSE]

\* the getter without its test of the cache: every read resolves
GetDecoderAlwaysResolves(cache, hasOwner, treeNode, pending) ==
  LET newDecoder == IF hasOwner THEN findDecoder(treeNode) ELSE Absent
  IN  IF newDecoder # Absent
        THEN [cache |-> newDecoder, pending |-> Append(pending, newDecoder),
              ret |-> newDecoder, ran |-> TRUE]
        ELSE [cache |-> cache, pending |-> pending, ret |-> cache, ran |-> hasOwner]

\* the getter without its setTimeout: a lazy resolution is not notified
GetDecoderNoTimer(cache, hasOwner, treeNode, pending) ==
  IF cache = Absent
    THEN LET newDecoder == IF hasOwner THEN findDecoder(treeNode) ELSE Absent
         IN  [cache |-> newDecoder, pending |-> pending, ret |-> newDecoder,
              ran |-> hasOwner]
    ELSE [cache |-> cache, pending |-> pending, ret |-> cache, ran |-> FALSE]

\* get decoder(): the cache, the pending deferred notifications, the value
\* returned, and whether findDecoder ran
GetDecoder(cache, hasOwner, treeNode, pending) ==
  IF cache = Absent
    THEN LET newDecoder == IF hasOwner THEN findDecoder(treeNode) ELSE Absent
         IN  IF newDecoder # Absent
               THEN [cache |-> newDecoder, pending |-> Append(pending, newDecoder),
                     ret |-> newDecoder, ran |-> TRUE]
               ELSE [cache |-> Absent, pending |-> pending, ret |-> Absent,
                     ran |-> hasOwner]
    ELSE [cache |-> cache, pending |-> pending, ret |-> cache, ran |-> FALSE]

\* EventDispatcher.dispatch(value) to the hook's setDecoder, if subscribed
Dispatched(subscribers, value, hookState) ==
  IF "setDecoder" \in subscribers THEN value ELSE hookState

\* the payload handed on as the message of an envelope
RawMessage(payload) == IF payload.present THEN [raw |-> payload.bytes] ELSE Absent

\* decode of a decoder other than CborDecoder, by the outcome the payload
\* carries for it: a decoded message under the decoder's tag, the payload
\* itself under NONE, or an error under NONE; decode always returns
OtherDecode(d, payload) ==
  LET o == payload.outcome[d]
  IN  CASE o = "ok" -> Returned([message |-> [decoded |-> d], decoder |-> d, error |-> Absent])
        [] o = "plain" -> Returned([message |-> RawMessage(payload), decoder |-> "NONE",
                                    error |-> Absent])
        [] OTHER -> Returned([message |-> Absent, decoder |-> "NONE",
                              error |-> [text |-> d]])

\* decoder.decode(payload, format)
DecoderDecode(d, payload, format, fromStringThrows) ==
  IF d = "CBOR" THEN CborDecode(payload.bytes, format, fromStringThrows)
  ELSE OtherDecode(d, payload)

\* the function useDecoder returns, for the `decoder` state it holds
decodeMessage(decoder, message, fromStringThrows) ==
  IF decoder # Absent /\ message.present
    THEN DecoderDecode(decoder.decoder, message, decoder.format, fromStringThrows)
    ELSE Returned([message |-> RawMessage(message), decoder |-> "NONE", error |-> Absent])

RECURSIVE TryDecoders(_, _, _, _)
\* the loop of decodeIndividualMessage from the i-th decoder on: the first
\* decoder that accepts the payload and whose decode gives no error and
\* throws nothing; checkError: whether `!result.error` is tested
TryDecoders(payload, i, fromStringThrows, checkError) ==
  IF i > Len(decoders)
    THEN [message |-> RawMessage(payload), decoder |-> "NONE", error |-> Absent]
  ELSE LET decoder == decoders[i]
           result == DecoderDecode(decoder, payload, "undefined", fromStringThrows)
       IN  IF /\ canDecodeData(decoder, payload)
              /\ ~result.threw
              /\ ~checkError \/ result.value.error = Absent
             THEN result.value
             ELSE TryDecoders(payload, i + 1, fromStringThrows, checkError)

\* decodeIndividualMessage of TreeNodeTitle, for the `decoder` state of its
\* useDecoder
TreeNodeTitleDecode(decoder, message, fromStringThrows) ==
  IF ~message.present
    THEN Returned([message |-> Absent, decoder |-> "NONE", error |-> Absent])
  ELSE LET nodeDecodedResult == decodeMessage(decoder, message, fromStringThrows)
       IN  IF nodeDecodedResult.threw THEN Threw
           ELSE IF nodeDecodedResult.value.decoder # "NONE" THEN nodeDecodedResult
           ELSE Returned(TryDecoders(message, 1, fromStringThrows, TRUE))

\* decodeIndividualMessage of MessageHistory taking the first result of the
\* loop, error or not
MessageHistoryDecodeAnyResult(decoder, message, fromStringThrows) ==
  IF ~message.present
    THEN Returned([message |-> Absent, decoder |-> "NONE", error |-> Absent])
  ELSE LET nodeDecodedResult == decodeMessage(decoder, message, fromStringThrows)
       IN  IF nodeDecodedResult.threw THEN Threw
           ELSE IF nodeDecodedResult.value.decoder # "NONE" THEN nodeDecodedResult
           ELSE Returned(TryDecoders(message, 1, fromStringThrows, FALSE))

\* decodeIndividualMessage of MessageHistory
MessageHistoryDecode(decoder, message, fromStringThrows) ==
  IF ~message.present
    THEN Returned([message |-> Absent, decoder |-> "NONE", error |-> Absent])
  ELSE LET nodeDecodedResult == decodeMessage(decoder, message, fromStringThrows)
       IN  IF nodeDecodedResult.threw THEN Threw
           ELSE IF nodeDecodedResult.value.decoder # "NONE" THEN nodeDecodedResult
           ELSE Returned(TryDecoders(message, 1, fromStringThrows, TRUE))

(***************************************************************************)
(* Inputs of the decoder.                                                  *)
(***************************************************************************)
\* heads the exhaustive buffers are made of: 0, h'', h'?', [4 items], {},
\* 18(...), null, undefined
ByteAlphabet == {0, 64, 65, 132, 160, 210, 246, 247}
RawBuffers == SeqsUpTo(ByteAlphabet, MaxBufLen)

\* n bytes no CBOR item starts with: a byte string head announcing 255 bytes
Undecodable(n, fill) == [i \in 1..n |-> IF i = 1 THEN 88 ELSE IF i = 2 THEN 255 ELSE fill]

\* a value wrapped as w says
Wrap(w, v) ==
  CASE w = "tag18" -> VTagged(18, v)
    [] w = "tag98" -> VTagged(98, v)
    [] w = "tag19" -> VTagged(19, v)
    [] w = "map" -> VMap(<<VPair(VText(StrTag), VInt(18)), VPair(VText(StrValue), v)>>)
    [] OTHER -> v
Wraps == {"none", "tag18", "tag98", "tag19", "map"}

\* elements of every kind, for the arrays the discriminator is tried on
ShapeElems ==
  {VBstr(<<>>), VMap(<<>>), VNull, VInt(0), VArray(<<>>), VTagged(19, VInt(0))}
ShapeValues ==
  {Wrap(w, VArray(a)) : w \in Wraps, a \in [1..4 -> ShapeElems]}
    \cup {Wrap(w, VArray([i \in 1..n |-> IF i = 2 THEN VMap(<<>>) ELSE VBstr(<<>>)])) :
            w \in Wraps, n \in {3, 5}}

\* COSE Sign1 values of varied content
ProtectedContents ==
  {<<>>, <<160>>, <<161, 1, 38>>} \cup {Undecodable(n, 7) : n \in {1, 32, MaxRawLen}}
PayloadContents ==
  {VNull, VBstr(<<>>), VBstr(<<1>>), VBstr(<<64>>), VBstr(<<104, 105>>),
   VBstr(<<104, 9, 105>>),
   VBstr(<<104, 27>>), VBstr(<<194, 133>>), VBstr(<<255, 104>>)}
    \cup {VBstr(Undecodable(n, 0)) : n \in {2, 32, MaxRawLen}}
    \cup {VBstr(Undecodable(n, 104)) : n \in {MaxRawLen}}
Signature(n) == [i \in 1..n |-> i]
ContentValues ==
  {Wrap(w, VArray(<<VBstr(p), VMap(<<>>), pl, VBstr(Signature(n))>>)) :
     w \in {"none", "tag18", "tag98"}, p \in ProtectedContents,
     pl \in PayloadContents, n \in {0, 1, 15, 16, MaxSigLen}}

CborInputs == RawBuffers \cup {CborEncode(v) : v \in ShapeValues \cup ContentValues}

(***************************************************************************)
(* Inputs of findDecoder and of the view model.                            *)
(***************************************************************************)
\* the decoders whose predicates are not in CborDecoder.ts
OtherDecoders == {"Sparkplug", "Binary", "String"}

\* a payload: its bytes, the other decoders whose canDecodeData accepts it,
\* and what the decode of each of the other decoders does with it
NoMessage ==
  [present |-> FALSE, bytes |-> <<>>, sniff |-> {}, outcome |-> [d \in OtherDecoders |-> "ok"]]
Payload(bytes, sniff) ==
  [present |-> TRUE, bytes |-> bytes, sniff |-> sniff,
   outcome |-> [d \in OtherDecoders |-> "ok"]]

\* every topic path and every payload findDecoder is tried on: an empty
\* buffer, the CBOR item 0, and a byte string head with nothing after it
FindPaths == SUBSET OtherDecoders
FindMessages ==
  {NoMessage} \cup {Payload(b, sn) : b \in {<<>>, <<0>>, <<65>>}, sn \in SUBSET OtherDecoders}
FindNodes ==
  [path : FindPaths, message : FindMessages]
    \cup [path : {{}},
          message : {[m EXCEPT !.outcome = o] :
                       m \in FindMessages \ {NoMessage},
                       o \in [OtherDecoders -> {"ok", "plain", "error"}]}]

\* the topic paths and payloads of the view model's tree node
ViewPaths == {{}, {"String"}}
ViewMessages ==
  {NoMessage, Payload(<<0>>, {}), Payload(<<65>>, {}), Payload(<<65>>, {"Binary", "String"})}

\* the bindings a user can set
Overrides == {Absent, TopicDecoder("Binary"), [decoder |-> "Binary", format |-> "float"]}

(***************************************************************************)
(* Inputs of encodeCoseSign1: a text, by what JSON.parse makes of it.      *)
(***************************************************************************)
\* a text JSON.parse rejects keeps its characters
Unparseable == [parses |-> FALSE, value |-> VNull, text |-> <<123>>]
Json(v) == [parses |-> TRUE, value |-> v]

StrFoo == <<102, 111, 111>>
StrKid == <<107, 105, 100>>
StrAlg == <<97, 108, 103>>

\* the member name: v of a JSON object, none where v is undefined
Member(name, v) == IF v.k = "undefined" THEN <<>> ELSE <<VPair(VText(name), v)>>

CoseJson(ph, uh, pl, sg) ==
  Json(VMap(Member(StrProtectedHeaders, ph) \o Member(StrUnprotectedHeaders, uh)
              \o Member(StrPayload, pl) \o Member(StrSignature, sg)))

JsonPayloads == {VUndefined, VNull, VInt(1), VText(<<104, 105>>)}
JsonProtected == {VUndefined, VMap(<<VPair(VText(StrAlg), VInt(-7))>>), VInt(5)}
JsonUnprotected ==
  {VUndefined, VMap(<<VPair(VText(StrKid), VInt(1))>>), VInt(5), VInt(0), VText(<<120>>),
   VArray(<<VInt(1)>>), VNull, VBool(TRUE)}
\* "", 5, "zz", "0x41 42", "41424344", "QUJDRA==", "41424", "!"
JsonSignatures ==
  {VUndefined, VText(<<>>), VInt(5), VText(<<122, 122>>),
   VText(<<48, 120, 52, 49, 32, 52, 50>>),
   VText(<<52, 49, 52, 50, 52, 51, 52, 52>>),
   VText(<<81, 85, 74, 68, 82, 65, 61, 61>>),
   VText(<<52, 49, 52, 50, 52>>), VText(<<33>>)}

\* the hex text and the base64 text of bytes
HexText(bytes) ==
  [i \in 1..(2 * Len(bytes)) |->
     IF i % 2 = 1 THEN HexChar(bytes[(i + 1) \div 2] \div 16)
     ELSE HexChar(bytes[i \div 2] % 16)]
SigByteValues == {65, 66, 67, 68}
SigByteSeqs == SeqsUpTo(SigByteValues, MaxSigBytes)

EncInputs ==
  {Unparseable}
    \cup {[Unparseable EXCEPT !.text = t] : t \in {<<>>, <<104, 105>>}}
    \cup {Json(v) : v \in {VNull, VInt(0), VInt(5), VText(<<>>), VText(<<120>>),
                          VBool(TRUE), VBool(FALSE), VArray(<<>>), VArray(<<VInt(1)>>),
                          VMap(<<>>), VMap(<<VPair(VText(StrFoo), VInt(1))>>)}}
    \cup {CoseJson(ph, uh, pl, sg) : ph \in JsonProtected, uh \in JsonUnprotected,
                                    pl \in JsonPayloads, sg \in JsonSignatures}
    \cup {CoseJson(VUndefined, VUndefined, VInt(1), VText(HexText(b))) : b \in SigByteSeqs}
    \cup {CoseJson(VUndefined, VUndefined, VInt(1), VText(B64EncodeBytes(b))) :
            b \in SigByteSeqs}

(***************************************************************************)
(* State.                                                                  *)
(***************************************************************************)
VARIABLES
  \* CborDecoder: the buffer of the Base64Message given, what canDecodeData
  \* and decode gave for it, and which calls were made
  cborInput, cborSniff, cborEnvelope, cborPc,
  \* encodeCoseSign1: the input text, whether base64 decoding is atob's, the
  \* EncodingResult, the envelope CborDecoder.decode gives for its data
  encInput, encAtobStrict, encResult, encEnvelope, encPc,
  \* findDecoder: the tree node given and the binding returned
  findNode, findResult, findPc,
  \* decodeIndividualMessage on the node's latest message: the `decoder`
  \* state of useDecoder, what TreeNodeTitle got and what MessageHistory got
  fbDecoder, fbTitle, fbHistory,
  \* the tree node of a topic: its path and latest message
  node,
  \* TopicViewModel: owner (set or undefined), _decoder, referenceCounter,
  \* the listeners of onDecoderChange, the setTimeout callbacks pending
  owner, _decoder, referenceCounter, listeners, timers,
  \* useDecoder: mounted or not, and its `decoder` state
  hookMounted, hookDecoder,
  \* history: where the cached binding came from, the last operation, and
  \* the onDecoderChange.dispatch of the last step: its value and the
  \* listeners it called
  origin, last, notified,
  \* publish: the state it reads (topic, payload text, editor mode), whether
  \* base64 decoding is atob's, the errors shown and the events emitted
  pubState, pubAtobStrict, pubErrors, pubEmitted, pubPc,
  \* the Publish panel: its props at the latest attempt, its history, whether
  \* the latest attempt amended the history, and the attempts made
  panelProps, panelHistory, panelAmended, panelAttempts

cborVars == <<cborInput, cborSniff, cborEnvelope, cborPc>>
encVars == <<encInput, encAtobStrict, encResult, encEnvelope, encPc>>
findVars == <<findNode, findResult, findPc, fbDecoder, fbTitle, fbHistory>>
viewVars ==
  <<node, owner, _decoder, referenceCounter, listeners, timers, hookMounted,
    hookDecoder, origin, last, notified>>
publishVars ==
  <<pubState, pubAtobStrict, pubErrors, pubEmitted, pubPc,
    panelProps, panelHistory, panelAmended, panelAttempts>>
vars == <<cborVars, encVars, findVars, viewVars, publishVars>>

\* the parts of the state a specification of another part leaves idle
CborIdle ==
  /\ cborInput = <<>>
  /\ cborSniff = FALSE
  /\ cborEnvelope = Absent
  /\ cborPc = "idle"

EncIdle ==
  /\ encInput = Unparseable
  /\ encAtobStrict = FALSE
  /\ encResult = Absent
  /\ encEnvelope = Absent
  /\ encPc = "idle"

FindIdle ==
  /\ findNode = [path |-> {}, message |-> NoMessage]
  /\ findResult = Absent
  /\ findPc = "idle"
  /\ fbDecoder = Absent
  /\ fbTitle = NotRead
  /\ fbHistory = NotRead

ViewIdle ==
  /\ node = [path |-> {}, message |-> NoMessage]
  /\ owner = FALSE
  /\ _decoder = Absent
  /\ referenceCounter = 0
  /\ listeners = {}
  /\ timers = <<>>
  /\ hookMounted = FALSE
  /\ hookDecoder = Absent
  /\ origin = "none"
  /\ last = [op |-> "idle", ran |-> FALSE, ret |-> Absent]
  /\ notified = Absent

\* the Publish panel before its first attempt
NoProps ==
  [manualTopic |-> Absent, selectedTopic |-> Absent, payload |-> Unparseable,
   editorMode |-> "text", connectionId |-> FALSE]
PanelIdle ==
  /\ panelProps = NoProps
  /\ panelHistory = <<>>
  /\ panelAmended = FALSE
  /\ panelAttempts = 0

PublishIdle ==
  /\ pubState = [topic |-> Absent, payload |-> Unparseable, editorMode |-> "text"]
  /\ pubAtobStrict = FALSE
  /\ pubErrors = <<>>
  /\ pubEmitted = <<>>
  /\ pubPc = "idle"
  /\ PanelIdle

(***************************************************************************)
(* CborDecoder: a payload arrives, is sniffed, is decoded.                 *)
(***************************************************************************)
CborInit ==
  /\ cborInput \in CborInputs
  /\ cborSniff = FALSE
  /\ cborEnvelope = Absent
  /\ cborPc = "input"

\* decoder.canDecodeData(payload)
CanDecodeDataCall ==
  /\ cborPc = "input"
  /\ cborSniff' = CborCanDecodeData(cborInput)
  /\ cborPc' = "sniffed"
  /\ UNCHANGED <<cborInput, cborEnvelope, encVars, findVars, viewVars, publishVars>>

\* decoder.decode(payload, format)
DecodeCall(format, fromStringThrows) ==
  /\ cborPc \in {"input", "sniffed"}
  /\ LET r == CborDecode(cborInput, format, fromStringThrows)
     IN  /\ cborEnvelope' = r.value
         /\ cborPc' = IF r.threw THEN "threw" ELSE "decoded"
  /\ UNCHANGED <<cborInput, cborSniff, encVars, findVars, viewVars, publishVars>>

CborNext ==
  \/ CanDecodeDataCall
  \/ \E format \in {"CBOR", "none"}, t \in BOOLEAN : DecodeCall(format, t)

CborSpecInit == CborInit /\ EncIdle /\ FindIdle /\ ViewIdle /\ PublishIdle

SpecCbor == CborSpecInit /\ [][CborNext]_vars

(***************************************************************************)
(* encodeCoseSign1, and the decoding of what it produced.                  *)
(***************************************************************************)
EncInit ==
  /\ encInput \in EncInputs
  /\ encAtobStrict \in BOOLEAN
  /\ encResult = Absent
  /\ encEnvelope = Absent
  /\ encPc = "input"

\* encodeCoseSign1(input)
EncodeCoseSign1Call ==
  /\ encPc = "input"
  /\ encResult' = encodeCoseSign1(encInput, encAtobStrict)
  /\ encPc' = "encoded"
  /\ UNCHANGED <<encInput, encAtobStrict, encEnvelope, cborVars, findVars, viewVars, publishVars>>

\* encodeCbor(input)
EncodeCborCall ==
  /\ encPc = "input"
  /\ encResult' = encodeCbor(encInput)
  /\ encPc' = "cbor"
  /\ UNCHANGED <<encInput, encAtobStrict, encEnvelope, cborVars, findVars, viewVars, publishVars>>

\* CborDecoder.decode(new Base64Message(result.data), 'CBOR')
DecodeEncodedCall(fromStringThrows) ==
  /\ encPc = "encoded"
  /\ encResult.success
  /\ LET r == CborDecode(Base64MessageToBuffer(encResult.data.base64), "CBOR",
                         fromStringThrows)
     IN  /\ encEnvelope' = r.value
         /\ encPc' = IF r.threw THEN "threw" ELSE "decoded"
  /\ UNCHANGED <<encInput, encAtobStrict, encResult, cborVars, findVars, viewVars, publishVars>>

EncNext ==
  \/ EncodeCoseSign1Call
  \/ EncodeCborCall
  \/ \E t \in BOOLEAN : DecodeEncodedCall(t)

EncSpecInit == EncInit /\ CborIdle /\ FindIdle /\ ViewIdle /\ PublishIdle

SpecEnc == EncSpecInit /\ [][EncNext]_vars

(***************************************************************************)
(* findDecoder on every tree node.                                         *)
(***************************************************************************)
FindInit ==
  /\ findNode \in FindNodes
  /\ findResult = Absent
  /\ findPc = "input"
  /\ fbDecoder \in {Absent} \cup {TopicDecoder(decoders[i]) : i \in 1..Len(decoders)}
  /\ fbTitle = NotRead
  /\ fbHistory = NotRead

\* findDecoder(node)
FindDecoderCall ==
  /\ findPc = "input"
  /\ findResult' = findDecoder(findNode)
  /\ findPc' = "found"
  /\ UNCHANGED <<findNode, fbDecoder, fbTitle, fbHistory>>
  /\ UNCHANGED <<cborVars, encVars, viewVars, publishVars>>

\* TreeNodeTitle decodes the latest message of the node
TreeNodeTitleDecodeCall(fromStringThrows) ==
  /\ fbTitle = NotRead
  /\ fbTitle' = TreeNodeTitleDecode(fbDecoder, findNode.message, fromStringThrows)
  /\ UNCHANGED <<findNode, findResult, findPc, fbDecoder, fbHistory>>
  /\ UNCHANGED <<cborVars, encVars, viewVars, publishVars>>

\* MessageHistory decodes the latest message of the node
MessageHistoryDecodeCall(fromStringThrows) ==
  /\ fbHistory = NotRead
  /\ fbHistory' = MessageHistoryDecode(fbDecoder, findNode.message, fromStringThrows)
  /\ UNCHANGED <<findNode, findResult, findPc, fbDecoder, fbTitle>>
  /\ UNCHANGED <<cborVars, encVars, viewVars, publishVars>>

FindNext ==
  \/ FindDecoderCall
  \/ \E t \in BOOLEAN : TreeNodeTitleDecodeCall(t)
  \/ \E t \in BOOLEAN : MessageHistoryDecodeCall(t)

FindSpecInit == FindInit /\ CborIdle /\ EncIdle /\ ViewIdle /\ PublishIdle

SpecFind == FindSpecInit /\ [][FindNext]_vars

(***************************************************************************)
(* TopicViewModel and useDecoder on one tree node.                         *)
(***************************************************************************)
\* new TopicViewModel(treeNode), for a topic that may hold a message
ViewInit ==
  /\ node \in [path : ViewPaths, message : ViewMessages]
  /\ owner = TRUE
  /\ _decoder = Absent
  /\ referenceCounter = 0
  /\ listeners = {}
  /\ timers = <<>>
  /\ hookMounted = FALSE
  /\ hookDecoder = Absent
  /\ origin = "none"
  /\ last = [op |-> "new", ran |-> FALSE, ret |-> Absent]
  /\ notified = Absent

Op(op, ran, ret) == [op |-> op, ran |-> ran, ret |-> ret]

\* where the cache holds its binding from, after a read
OriginAfterGet(g) == IF g.ran /\ g.cache # Absent THEN "resolved" ELSE origin

\* some consumer reads viewModel.decoder
ReadDecoder ==
  LET g == GetDecoder(_decoder, owner, node, timers)
  IN  /\ Len(g.pending) <= MaxPending
      /\ _decoder' = g.cache
      /\ timers' = g.pending
      /\ origin' = OriginAfterGet(g)
      /\ last' = Op("get", g.ran, g.ret)
      /\ notified' = Absent
      /\ UNCHANGED <<node, owner, referenceCounter, listeners, hookMounted, hookDecoder>>
      /\ UNCHANGED <<cborVars, encVars, findVars, publishVars>>

\* viewModel.decoder = override: the cache is set and the listeners are
\* called at once
WriteDecoder(override) ==
  /\ _decoder' = override
  /\ hookDecoder' = Dispatched(listeners, override, hookDecoder)
  /\ origin' = IF override = Absent THEN "none" ELSE "override"
  /\ last' = Op("set", FALSE, NotRead)
  /\ notified' = [value |-> override, to |-> listeners]
  /\ UNCHANGED <<node, owner, referenceCounter, listeners, timers, hookMounted>>
  /\ UNCHANGED <<cborVars, encVars, findVars, publishVars>>

\* the callback of setTimeout(() => this.onDecoderChange.dispatch(newDecoder), 0)
TimerFires ==
  /\ timers # <<>>
  /\ hookDecoder' = Dispatched(listeners, Head(timers), hookDecoder)
  /\ timers' = Tail(timers)
  /\ last' = Op("timer", FALSE, NotRead)
  /\ notified' = [value |-> Head(timers), to |-> listeners]
  /\ UNCHANGED <<node, owner, _decoder, referenceCounter, listeners, hookMounted, origin>>
  /\ UNCHANGED <<cborVars, encVars, findVars, publishVars>>

\* a message arrives on the topic: the node holds it and dispatches
\* onMessage; a mounted useDecoder runs handleMessage, which reads the
\* getter and stores what it returned
MessageArrives(payload) ==
  LET cleared == IF ConstructorClearsOnMessage /\ owner THEN Absent ELSE _decoder
      newNode == [node EXCEPT !.message = payload]
      g == GetDecoder(cleared, owner, newNode, timers)
  IN  /\ node' = newNode
      /\ IF hookMounted
           THEN /\ Len(g.pending) <= MaxPending
                /\ _decoder' = g.cache
                /\ timers' = g.pending
                /\ hookDecoder' = g.ret
                /\ origin' = IF g.ran /\ g.cache # Absent THEN "resolved"
                              ELSE IF cleared = Absent THEN "none" ELSE origin
                /\ last' = Op("message", g.ran, g.ret)
           ELSE /\ _decoder' = cleared
                /\ origin' = IF cleared = Absent THEN "none" ELSE origin
                /\ last' = Op("message", FALSE, NotRead)
                /\ UNCHANGED <<timers, hookDecoder>>
      /\ notified' = Absent
      /\ UNCHANGED <<owner, referenceCounter, listeners, hookMounted>>
      /\ UNCHANGED <<cborVars, encVars, findVars, publishVars>>

\* the consumer of useDecoder calls the function it returned on the latest
\* message of the node
HookDecodeCall(fromStringThrows) ==
  /\ hookMounted
  /\ LET r == decodeMessage(hookDecoder, node.message, fromStringThrows)
     IN  last' = Op(IF r.threw THEN "decode threw" ELSE "decode", FALSE, r.value)
  /\ notified' = Absent
  /\ UNCHANGED <<node, owner, _decoder, referenceCounter, listeners, timers,
                 hookMounted, hookDecoder, origin>>
  /\ UNCHANGED <<cborVars, encVars, findVars, publishVars>>

\* useDecoder mounts: useState(viewModel?.decoder) reads the getter, then
\* the subscriptions to onDecoderChange and treeNode.onMessage are made
HookMounts ==
  LET g == GetDecoder(_decoder, owner, node, timers)
  IN  /\ ~hookMounted
      /\ owner
      /\ Len(g.pending) <= MaxPending
      /\ hookMounted' = TRUE
      /\ _decoder' = g.cache
      /\ timers' = g.pending
      /\ hookDecoder' = g.ret
      /\ listeners' = listeners \cup {"setDecoder"}
      /\ origin' = OriginAfterGet(g)
      /\ last' = Op("mount", g.ran, g.ret)
      /\ notified' = Absent
      /\ UNCHANGED <<node, owner, referenceCounter>>
      /\ UNCHANGED <<cborVars, encVars, findVars, publishVars>>

\* useDecoder unmounts: both subscriptions are removed
HookUnmounts ==
  /\ hookMounted
  /\ hookMounted' = FALSE
  /\ listeners' = listeners \ {"setDecoder"}
  /\ last' = Op("unmount", FALSE, NotRead)
  /\ notified' = Absent
  /\ UNCHANGED <<node, owner, _decoder, referenceCounter, timers, hookDecoder, origin>>
  /\ UNCHANGED <<cborVars, encVars, findVars, publishVars>>

\* retain()
Retain ==
  /\ referenceCounter < MaxRefs
  /\ referenceCounter' = referenceCounter + 1
  /\ last' = Op("retain", FALSE, NotRead)
  /\ notified' = Absent
  /\ UNCHANGED <<node, owner, _decoder, listeners, timers, hookMounted, hookDecoder, origin>>
  /\ UNCHANGED <<cborVars, encVars, findVars, publishVars>>

\* destroy() removing the owner link and leaving the listeners registered
DestroyedKeepsListeners(doIt) ==
  /\ owner' = (owner /\ ~doIt)
  /\ listeners' = listeners

\* release() calling destroy() whatever the counter is
DestroyedAlways(doIt) ==
  /\ owner' = FALSE
  /\ listeners' = {}

\* destroy(): the owner link is removed and all listeners are cleared
Destroyed(doIt) ==
  /\ owner' = (owner /\ ~doIt)
  /\ listeners' = IF doIt THEN {} ELSE listeners

\* destroy() called from outside
Destroy ==
  /\ Destroyed(TRUE)
  /\ last' = Op("destroy", FALSE, NotRead)
  /\ notified' = Absent
  /\ UNCHANGED <<node, _decoder, referenceCounter, timers, hookMounted, hookDecoder, origin>>
  /\ UNCHANGED <<cborVars, encVars, findVars, publishVars>>

\* release()
Release ==
  /\ referenceCounter > -MaxRefs
  /\ referenceCounter' = referenceCounter - 1
  /\ Destroyed(referenceCounter - 1 <= 0)
  /\ last' = Op("release", FALSE, NotRead)
  /\ notified' = Absent
  /\ UNCHANGED <<node, _decoder, timers, hookMounted, hookDecoder, origin>>
  /\ UNCHANGED <<cborVars, encVars, findVars, publishVars>>

ViewNext ==
  \/ ReadDecoder
  \/ \E override \in Overrides : WriteDecoder(override)
  \/ TimerFires
  \/ \E payload \in ViewMessages \ {NoMessage} : MessageArrives(payload)
  \/ \E t \in BOOLEAN : HookDecodeCall(t)
  \/ HookMounts
  \/ HookUnmounts
  \/ Retain
  \/ Destroy
  \/ Release

ViewSpecInit == ViewInit /\ CborIdle /\ EncIdle /\ FindIdle /\ PublishIdle

SpecView == ViewSpecInit /\ [][ViewNext]_vars

(***************************************************************************)
(* publish on every state of the Publish panel.                            *)
(***************************************************************************)
\* publish(connectionId)(dispatch, getState)
PublishCall ==
  /\ pubPc = "ready"
  /\ LET r == publish(pubState, pubAtobStrict)
     IN  /\ pubErrors' = r.errors
         /\ pubEmitted' = r.emitted
  /\ pubPc' = "done"
  /\ UNCHANGED <<pubState, pubAtobStrict, cborVars, encVars, findVars, viewVars>>
  /\ UNCHANGED <<panelProps, panelHistory, panelAmended, panelAttempts>>

PublishNext == PublishCall

PublishSpecInit ==
  /\ pubState \in [topic : {Absent, [path |-> "t"]}, payload : EncInputs,
                    editorMode : {"text", "cbor", "cose"}]
  /\ pubAtobStrict \in BOOLEAN
  /\ pubErrors = <<>>
  /\ pubEmitted = <<>>
  /\ pubPc = "ready"
  /\ PanelIdle
  /\ CborIdle /\ EncIdle /\ FindIdle /\ ViewIdle

SpecPublish == PublishSpecInit /\ [][PublishNext]_vars

(***************************************************************************)
(* Publish attempts in the Publish panel.                                  *)
(***************************************************************************)
\* what the panel is given at an attempt: the manual topic (none, empty or
\* typed), the selected topic, the editor text and mode, the connection
PanelProps ==
  [manualTopic : {Absent, [path |-> ""], [path |-> "t"], [path |-> "u"]},
   selectedTopic : {Absent, [path |-> "s"]},
   payload : {[Unparseable EXCEPT !.text = <<>>], Json(VInt(1)), Json(VInt(9)),
              CoseJson(VUndefined, VUndefined, VInt(1), VText(HexText(<<65>>)))},
   editorMode : {"text", "cbor", "cose"},
   connectionId : BOOLEAN]

\* the history after eight publishes of the texts 1 .. 8 to the topic t
FullHistory == [i \in 1..(HistoryKeep + 1) |-> [topic |-> [path |-> "t"], payload |-> Json(VInt(i))]]

\* Publish.publish of the panel: the thunk runs, then the history is amended
PanelPublish(props, atobStrict) ==
  LET r == IF props.connectionId THEN publish(PanelState(props), atobStrict)
           ELSE [errors |-> <<>>, emitted |-> <<>>]
      amends == props.connectionId /\ TopicGiven(props.manualTopic)
  IN  /\ panelAttempts < MaxAttempts
      /\ panelAttempts' = panelAttempts + 1
      /\ panelProps' = props
      /\ pubState' = PanelState(props)
      /\ pubAtobStrict' = atobStrict
      /\ pubErrors' = r.errors
      /\ pubEmitted' = r.emitted
      /\ pubPc' = "done"
      /\ panelAmended' = amends
      /\ panelHistory' = IF amends
                           THEN amendToHistory(panelHistory, props.manualTopic, props.payload)
                           ELSE panelHistory
      /\ UNCHANGED <<cborVars, encVars, findVars, viewVars>>

PanelNext == \E props \in PanelProps, atobStrict \in BOOLEAN : PanelPublish(props, atobStrict)

PanelSpecInit ==
  /\ pubState = PanelState(NoProps)
  /\ pubAtobStrict = FALSE
  /\ pubErrors = <<>>
  /\ pubEmitted = <<>>
  /\ pubPc = "ready"
  /\ panelProps = NoProps
  /\ panelHistory \in {<<>>, FullHistory}
  /\ panelAmended = FALSE
  /\ panelAttempts = 0
  /\ CborIdle /\ EncIdle /\ FindIdle /\ ViewIdle

SpecPanel == PanelSpecInit /\ [][PanelNext]_vars

(***************************************************************************)
(* Properties of CborDecoder, checked under SpecCbor.                      *)
(***************************************************************************)
IsSuccessEnvelope(e) == e.message # Absent /\ e.decoder = "CBOR" /\ e.error = Absent
IsErrorEnvelope(e) == e.message = Absent /\ e.decoder = "NONE" /\ e.error # Absent

\* the value tree cbor.decode gives for the input
InputDecoded == CborDecodeLib(cborInput)

\* decode returned a success envelope for a COSE Sign1 structure
DecodedAsCose ==
  /\ cborPc = "decoded"
  /\ cborEnvelope.message # Absent
  /\ cborEnvelope.message.cose

\* C3: decode never throws and returns exactly one of the two envelope
\* shapes: message with decoder CBOR and no error, or error with decoder NONE
\* and no message; a buffer that does not decode structurally gets the
\* error envelope.
C3_DecodeEnvelopeShape ==
  /\ cborPc # "threw"
  /\ cborPc = "decoded" =>
       /\ IsSuccessEnvelope(cborEnvelope) \/ IsErrorEnvelope(cborEnvelope)
       /\ ~(IsSuccessEnvelope(cborEnvelope) /\ IsErrorEnvelope(cborEnvelope))
       /\ ~InputDecoded.ok => IsErrorEnvelope(cborEnvelope)

\* C3 witness: a buffer that decodes structurally and fails at the
\* serialisation stage got the error envelope
C3_Witness ==
  /\ cborPc = "decoded"
  /\ InputDecoded.ok
  /\ IsErrorEnvelope(cborEnvelope)

\* the COSE Sign1 shape as the specification words it: an optional tag 18 or
\* 98 around an array [bstr, map, bstr or null, bstr]
SpecCoseShape(v) ==
  LET arr == IF v.k = "tagged" /\ v.n \in {18, 98} THEN v.items[1] ELSE v
  IN  /\ arr.k = "array"
      /\ Len(arr.items) = 4
      /\ arr.items[1].k = "bstr"
      /\ arr.items[2].k = "map"
      /\ arr.items[3].k \in {"bstr", "null"}
      /\ arr.items[4].k = "bstr"

\* C4: a decoded value is treated as COSE Sign1 if and only if it has the
\* COSE Sign1 shape (optional tag 18/98, array of 4, [bstr, map, bstr|null,
\* bstr]); everything else is decoded as plain CBOR.
C4_CoseDiscriminator ==
  (cborPc = "decoded" /\ cborEnvelope.message # Absent) =>
    (cborEnvelope.message.cose <=> SpecCoseShape(InputDecoded.v))

\* the four elements of the input's COSE Sign1 array
InputCoseArray ==
  IF InputDecoded.v.k = "array" THEN InputDecoded.v.items
  ELSE Prop(InputDecoded.v, StrValue).items

IsPrefixOfLen(p, s, n) == Len(p) = n /\ p = SubSeq(s, 1, n)

\* C8: signature_info.length is the signature's length n and the preview is
\* its first min(n, 16) bytes; the binary payload preview and the protected
\* header raw preview are the first min(length, 32) bytes.
C8_PreviewBounding ==
  DecodedAsCose =>
    LET json == cborEnvelope.message.json
        prot == InputCoseArray[1].b
        payl == InputCoseArray[3].b
        sig == InputCoseArray[4].b
    IN  /\ json.signature_info.length = Len(sig)
        /\ IsPrefixOfLen(json.signature_info.preview, sig, Min(Len(sig), 16))
        /\ json.payload._type = "binary" =>
             /\ json.payload._length = Len(payl)
             /\ IsPrefixOfLen(json.payload._preview, payl, Min(Len(payl), 32))
        /\ json.protected_headers._decode_error =>
             IsPrefixOfLen(json.protected_headers._raw_bytes, prot, Min(Len(prot), 32))

\* C8 witness: a signature longer than 16 bytes, an undecodable protected
\* header and a binary payload longer than 32 bytes, all cut
C8_Witness ==
  /\ DecodedAsCose
  /\ Len(InputCoseArray[4].b) > 16
  /\ Len(cborEnvelope.message.json.signature_info.preview) = 16
  /\ cborEnvelope.message.json.payload._type = "binary"
  /\ Len(InputCoseArray[3].b) > 32
  /\ cborEnvelope.message.json.protected_headers._decode_error
  /\ Len(InputCoseArray[1].b) > 32


\* a text has a control character other than tab, line feed, vertical tab,
\* form feed and carriage return
HasControlOutsideTabNewline(text) ==
  \E i \in 1..Len(text) :
    (text[i] < 32 /\ text[i] \notin 9..13) \/ text[i] \in 127..159

\* the classification of payload bytes the claim states
ClassifiedAs(p, payl) ==
  LET d == CborDecodeLib(payl)
      text == Utf8ToString(payl)
  IN  IF d.ok THEN p._type = "cbor" /\ p._decoded = d.v
      ELSE IF ~HasControlOutsideTabNewline(text)
        THEN p._type = "string" /\ p._decoded = VText(text)
      ELSE /\ p._type = "binary"
           /\ p._length = Len(payl)
           /\ IsPrefixOfLen(p._preview, payl, Min(Len(payl), 32))

\* a value of the COSE Sign1 shape is decoded into a success envelope,
\* whatever its protected header and payload bytes are
CoseNeverErrorEnvelope ==
  (cborPc \in {"decoded", "threw"} /\ InputDecoded.ok /\ SpecCoseShape(InputDecoded.v)) =>
    /\ cborPc = "decoded"
    /\ IsSuccessEnvelope(cborEnvelope)
    /\ cborEnvelope.message.cose

\* C15 as stated: for every COSE Sign1 value whose payload is a byte string,
\* the payload member is classified cbor, else string, else binary, and a
\* failing sub-decode never gives an error envelope.
C15_PayloadClassification ==
  /\ CoseNeverErrorEnvelope
  /\ (DecodedAsCose /\ InputCoseArray[3].k = "bstr") =>
       ClassifiedAs(cborEnvelope.message.json.payload, InputCoseArray[3].b)

\* C15 amended: the classification holds for every payload byte string of
\* one byte or more; a zero-length payload byte string, like a null payload,
\* gives the payload member null.
C15_NonEmptyPayloadClassification ==
  /\ CoseNeverErrorEnvelope
  /\ (DecodedAsCose /\ InputCoseArray[3].k = "bstr") =>
       IF Len(InputCoseArray[3].b) > 0
         THEN ClassifiedAs(cborEnvelope.message.json.payload, InputCoseArray[3].b)
         ELSE cborEnvelope.message.json.payload._type = "null"

\* C15 witness: a COSE Sign1 value whose protected header bytes are no CBOR
\* and whose payload bytes are neither CBOR nor printable text was decoded
\* into a success envelope with a binary payload
C15_Witness ==
  /\ DecodedAsCose
  /\ IsSuccessEnvelope(cborEnvelope)
  /\ InputCoseArray[3] = VBstr(<<104, 27>>)
  /\ cborEnvelope.message.json.payload._type = "binary"
  /\ cborEnvelope.message.json.protected_headers._decode_error

(***************************************************************************)
(* Properties of findDecoder, checked under SpecFind.                      *)
(***************************************************************************)
\* the registry positions whose topic-name predicate accepts the path, and
\* those whose sniffing predicate accepts the latest payload
TopicHits == {i \in 1..4 : canDecodeTopic(decoders[i], findNode.path)}
DataHits ==
  {i \in 1..4 : findNode.message.present /\ canDecodeData(decoders[i], findNode.message)}
First(hits) == CHOOSE i \in hits : \A j \in hits : i <= j
RegistryOrder == decoders = <<"Sparkplug", "CBOR", "Binary", "String">>

\* C1 as stated: the first decoder whose topic-name predicate matches is
\* returned, and only when no topic-name predicate matches the first whose
\* sniffing predicate matches the payload; so a lower-priority decoder
\* matching by topic name wins over a higher-priority one matching by
\* sniffing.
C1_TopicNameFirst ==
  findPc = "found" =>
    /\ RegistryOrder
    /\ IF TopicHits # {} THEN /\ findResult # Absent
                              /\ findResult.decoder = decoders[First(TopicHits)]
       ELSE IF DataHits # {} THEN /\ findResult # Absent
                                  /\ findResult.decoder = decoders[First(DataHits)]
       ELSE findResult = Absent

\* C1 amended: the registry is gone through once, in the order Sparkplug-B,
\* CBOR, Binary, String, and the first decoder whose topic-name predicate
\* matches the path or whose sniffing predicate matches the latest payload
\* is returned; no binding when neither predicate of any decoder matches.
C1_FirstMatchOfEitherPredicate ==
  findPc = "found" =>
    /\ RegistryOrder
    /\ IF TopicHits \cup DataHits # {}
         THEN /\ findResult # Absent
              /\ findResult.decoder = decoders[First(TopicHits \cup DataHits)]
         ELSE findResult = Absent

\* C1 witness: a higher-priority decoder that matches only by sniffing was
\* returned although a lower-priority decoder matches by topic name
C1_Witness ==
  /\ findPc = "found"
  /\ TopicHits # {}
  /\ DataHits # {}
  /\ First(DataHits) < First(TopicHits)
  /\ findResult.decoder = decoders[First(DataHits)]

\* C2: with no topic-name match and a payload that two or more sniffing
\* predicates accept, the decoder first in registry order is returned, with
\* its first declared format.
C2_SniffPriority ==
  (findPc = "found" /\ TopicHits = {} /\ Cardinality(DataHits) >= 2) =>
    /\ RegistryOrder
    /\ findResult # Absent
    /\ findResult.decoder = decoders[First(DataHits)]
    /\ findResult.format = formats(decoders[First(DataHits)])[1]

\* C2 witness: CBOR and Binary both accept the payload, CBOR is returned
C2_Witness ==
  /\ findPc = "found"
  /\ TopicHits = {}
  /\ {2, 3} \subseteq DataHits
  /\ 1 \notin DataHits
  /\ findResult = [decoder |-> "CBOR", format |-> "CBOR"]

(***************************************************************************)
(* Properties of encodeCoseSign1, checked under SpecEnc.                   *)
(***************************************************************************)
\* the input parsed to a JSON object (not an array) with a payload key
InputIsObject == encInput.parses /\ encInput.value.k = "map"
InputHasPayload ==
  /\ InputIsObject
  /\ \E i \in 1..Len(encInput.value.items) :
       encInput.value.items[i].items[1] = VText(StrPayload)
InputSignature == JsonGet(encInput.value, StrSignature)

\* the signature byte string of the envelope in result.data
EnvelopeSignature ==
  CborDecodeLib(Base64MessageToBuffer(encResult.data.base64)).v.items[1].items[4].b

\* C5: whenever encodeCoseSign1 succeeded, decoding its data gives a success
\* envelope whose structure has _cose_structure = 'COSE_Sign1' and
\* _cbor_tag = 18.
C5_TagRoundTrip ==
  /\ encPc # "threw"
  /\ encPc = "decoded" =>
       /\ IsSuccessEnvelope(encEnvelope)
       /\ encEnvelope.message.cose
       /\ encEnvelope.message.json._cose_structure = "COSE_Sign1"
       /\ encEnvelope.message.json._cbor_tag = VInt(18)

\* C6: a signature given as the hex text or as the base64 text of some
\* bytes puts exactly those bytes into the envelope, and an absent signature
\* an empty byte string.
C6_SignatureHexOrBase64 ==
  (encPc = "encoded" /\ InputHasPayload) =>
    /\ InputSignature = VUndefined => encResult.success /\ EnvelopeSignature = <<>>
    /\ \A b \in SigByteSeqs \ {<<>>} :
         (InputSignature = VText(HexText(b)) \/ InputSignature = VText(B64EncodeBytes(b)))
           => encResult.success /\ EnvelopeSignature = b

\* C7: a text that is no JSON, or no JSON object with a payload key, gets
\* success = false with an error and no data; an object without the key
\* gets the error naming the payload field; no result has data and error.
C7_Validation ==
  encPc = "encoded" =>
    /\ ~InputHasPayload =>
         /\ ~encResult.success
         /\ encResult.error # Absent
         /\ encResult.data = Absent
    /\ (InputIsObject /\ ~InputHasPayload) =>
         encResult.error = [text |-> "COSE input must contain a \"payload\" field"]
    /\ ~(encResult.data # Absent /\ encResult.error # Absent)
    /\ encResult.success <=> encResult.data # Absent

\* C7 witness: {"foo": 1} was refused with the error naming the field
C7_Witness ==
  /\ encPc = "encoded"
  /\ encInput = Json(VMap(<<VPair(VText(StrFoo), VInt(1))>>))
  /\ ~encResult.success
  /\ encResult.error = [text |-> ErrNoPayload]

\* C14: encodeCbor returns success with data and no error for every text;
\* the data is the CBOR of the parsed value when the text is JSON, and of
\* the text as a string otherwise.
C14_EncodeCborTotal ==
  encPc = "cbor" =>
    /\ encResult.success
    /\ encResult.error = Absent
    /\ encResult.data # Absent
    /\ CborDecodeLib(Base64MessageToBuffer(encResult.data.base64)) =
         [ok |-> TRUE,
          v |-> IF encInput.parses THEN encInput.value ELSE VText(encInput.text)]

\* C14 witness: the text `hi`, which is no JSON, was encoded as a string
C14_Witness ==
  /\ encPc = "cbor"
  /\ ~encInput.parses
  /\ encInput.text = <<104, 105>>
  /\ encResult.success
  /\ Base64MessageToBuffer(encResult.data.base64) = <<98, 104, 105>>

C10_BindingFollowsLatestPayload ==
  [][(last'.op = "message" /\ hookMounted /\ owner /\ origin = "resolved") =>
       hookDecoder' = findDecoder(node')]_vars


\* C11: every change of the cached binding is notified with the new
\* binding: the setter dispatches it in the same step, a lazy resolution in
\* the getter dispatches nothing in that step and schedules exactly one
\* deferred notification carrying the binding, which a later timer step
\* delivers; nothing else schedules or drops a deferred notification.
C11_ChangeNotified ==
  [][/\ last'.op = "set" =>
          /\ notified' = [value |-> _decoder', to |-> listeners]
          /\ timers' = timers
     /\ (_decoder' # _decoder /\ last'.op # "set") =>
          /\ _decoder = Absent
          /\ last'.ran
          /\ notified' = Absent
          /\ timers' = Append(timers, _decoder')
     /\ (_decoder' = _decoder /\ last'.op # "timer") => timers' = timers
     /\ last'.op = "timer" =>
          /\ timers # <<>>
          /\ timers' = Tail(timers)
          /\ notified' = [value |-> Head(timers), to |-> listeners]
          /\ _decoder' = _decoder]_vars

\* C11 witness: the deferred notification of a lazy resolution was
\* delivered to the subscriber of useDecoder, carrying the cached binding
C11_Witness ==
  /\ last.op = "timer"
  /\ origin = "resolved"
  /\ notified # Absent
  /\ notified.value = _decoder
  /\ "setDecoder" \in notified.to
  /\ owner


\* C12: among retain() and release() calls, only a release() that leaves
\* the reference counter at zero or below removes the owner link and clears
\* the listeners, and it does; retain() and a release() that leaves the
\* counter above zero leave both as they are.
C12_RefCountedTeardown ==
  [][/\ last'.op = "retain" =>
          /\ referenceCounter' = referenceCounter + 1
          /\ owner' = owner
          /\ listeners' = listeners
     /\ last'.op = "release" =>
          /\ referenceCounter' = referenceCounter - 1
          /\ IF referenceCounter' <= 0
               THEN ~owner' /\ listeners' = {}
               ELSE owner' = owner /\ listeners' = listeners
     /\ (owner /\ ~owner') =>
          \/ last'.op = "release" /\ referenceCounter' <= 0
          \/ last'.op = "destroy"]_vars

\* C12 witness: one of two consumers released the view model, which still
\* has its owner and its listener
C12_Witness ==
  /\ last.op = "release"
  /\ referenceCounter = 1
  /\ owner
  /\ "setDecoder" \in listeners


(***************************************************************************)
(* Properties of publish, checked under SpecPublish.                       *)
(***************************************************************************)
PublishEncodes ==
  /\ pubState.topic # Absent
  /\ pubState.payload.parses \/ pubState.payload.text # <<>>
  /\ pubState.editorMode \in {"cbor", "cose"}
EncoderResult ==
  IF pubState.editorMode = "cbor" THEN encodeCbor(pubState.payload)
  ELSE encodeCoseSign1(pubState.payload, pubAtobStrict)

\* C13: when publish ran with a topic, a non-empty payload and editor mode
\* cbor or cose, and the encoder failed, the encoder's error was shown and
\* no publish event was emitted; whenever an event was emitted in those
\* modes it is the only one and its payload is the data the encoder
\* returned, with no error shown.
C13_EncodeErrorBlocksPublish ==
  (pubPc = "done" /\ PublishEncodes) =>
    /\ ~EncoderResult.success =>
         /\ pubErrors = <<EncoderResult.error.text>>
         /\ pubEmitted = <<>>
    /\ pubEmitted # <<>> =>
         /\ EncoderResult.success
         /\ pubEmitted = <<[topic |-> pubState.topic, payload |-> EncoderResult.data]>>
         /\ pubErrors = <<>>

\* C13 witness: publish in cose mode of {"foo": 1} showed the error naming
\* the payload field and emitted nothing
C13_Witness ==
  /\ pubPc = "done"
  /\ pubState.editorMode = "cose"
  /\ pubState.topic # Absent
  /\ pubState.payload = Json(VMap(<<VPair(VText(StrFoo), VInt(1))>>))
  /\ pubErrors = <<ErrNoPayload>>
  /\ pubEmitted = <<>>


\* a step in which `decoder` was read: by some consumer, by useDecoder
\* mounting, or by handleMessage
ReadStep == last'.op \in {"get", "mount", "message"} /\ last'.ret # NotRead

\* C16: the setter stores what it is given; while a binding set by the
\* setter is held, every step but another call of the setter leaves it, and
\* every read returns it without running findDecoder, whatever the path and
\* the latest payload are; when the cache is empty, as after the setter was
\* called with no binding, a read of a view model that has its owner runs
\* findDecoder on the current node and returns what it gives.
C16_OverrideBypassesResolution ==
  [][/\ last'.op = "set" => _decoder' = notified'.value
     /\ (origin = "override" /\ last'.op # "set") =>
          /\ _decoder # Absent
          /\ _decoder' = _decoder
          /\ origin' = "override"
          /\ ~last'.ran
          /\ ReadStep => last'.ret = _decoder
     /\ (_decoder' = Absent /\ last'.op = "set") => origin' = "none"
     /\ (_decoder = Absent /\ owner /\ ReadStep) =>
          /\ last'.ran
          /\ last'.ret = findDecoder(node')
          /\ _decoder' = findDecoder(node')]_vars

\* C16 witness: a read returned the binding set by the setter although
\* resolution on the node gives another one
C16_Witness ==
  /\ last.op \in {"get", "mount", "message"}
  /\ last.ret # NotRead
  /\ origin = "override"
  /\ last.ret = _decoder
  /\ ~last.ran
  /\ owner
  /\ findDecoder(node) # Absent
  /\ findDecoder(node) # _decoder


\* no decoder accepts the node, by its path or by its latest payload
NoDecoderMatches(n) ==
  \A i \in 1..Len(decoders) :
    /\ ~canDecodeTopic(decoders[i], n.path)
    /\ ~(n.message.present /\ canDecodeData(decoders[i], n.message))

\* C17: a read of `decoder` with an empty cache runs findDecoder; when no
\* decoder matches it returns no binding, leaves the cache empty and
\* schedules and dispatches no notification, so that the next read tries
\* again, and when a decoder matches the read returns its binding; the
\* function of a useDecoder that holds no binding returns the raw payload
\* with decoder = NONE and no error.
C17_ResolutionFailureIsNoError ==
  [][/\ (ReadStep /\ _decoder = Absent /\ owner) =>
          /\ last'.ran
          /\ IF NoDecoderMatches(node')
               THEN /\ last'.ret = Absent
                    /\ _decoder' = Absent
                    /\ timers' = timers
                    /\ notified' = Absent
               ELSE /\ last'.ret # Absent
                    /\ _decoder' = last'.ret
     /\ (last'.op \in {"decode", "decode threw"} /\ hookDecoder = Absent) =>
          /\ last'.op = "decode"
          /\ last'.ret = [message |-> RawMessage(node.message), decoder |-> "NONE",
                         error |-> Absent]]_vars

\* C17 witness: no decoder matches the node and its payload, nothing is
\* cached, and the function of useDecoder returned the raw payload
C17_Witness ==
  /\ last.op = "decode"
  /\ owner
  /\ node.message.present
  /\ NoDecoderMatches(node)
  /\ _decoder = Absent
  /\ hookDecoder = Absent
  /\ timers = <<>>
  /\ last.ret.decoder = "NONE"
  /\ last.ret.message = [raw |-> node.message.bytes]


(***************************************************************************)
(* C18                                                                     *)
(***************************************************************************)
\* the registry positions whose decoder accepts the payload and decodes it
\* without error or exception
CleanDecoders(message, t) ==
  {i \in 1..Len(decoders) :
     /\ canDecodeData(decoders[i], message)
     /\ ~DecoderDecode(decoders[i], message, "undefined", t).threw
     /\ DecoderDecode(decoders[i], message, "undefined", t).value.error = Absent}

\* the envelope the fallback decode is said to give
FallbackEnvelope(decoder, message, t) ==
  LET nodeEnvelope == decodeMessage(decoder, message, t).value
      clean == CleanDecoders(message, t)
      first == CHOOSE i \in clean : \A j \in clean : i <= j
  IN  IF nodeEnvelope.decoder # "NONE" THEN nodeEnvelope
      ELSE IF clean # {}
        THEN DecoderDecode(decoders[first], message, "undefined", t).value
      ELSE [message |-> RawMessage(message), decoder |-> "NONE", error |-> Absent]

\* what a call site got is the fallback envelope, without an error field
IsFallbackResult(got) ==
  got # NotRead =>
    /\ ~got.threw
    /\ got.value.error = Absent
    /\ \E t \in BOOLEAN : got.value = FallbackEnvelope(fbDecoder, findNode.message, t)

\* C18: for a message with a payload, TreeNodeTitle and MessageHistory each
\* return the nodeEnvelope decoder's envelope when its tag is not NONE, otherwise the
\* envelope of the first decoder in registry order that accepts the payload
\* and decodes it without error or exception, otherwise the raw payload under
\* NONE; the result has no error field and the two call sites agree.
C18_FallbackDecode ==
  findNode.message.present =>
    /\ IsFallbackResult(fbTitle)
    /\ IsFallbackResult(fbHistory)
    /\ (fbTitle # NotRead /\ fbHistory # NotRead) => fbTitle = fbHistory

\* both call sites ran on a payload the node decoder (CBOR) could not decode,
\* Sparkplug accepted it and failed, and Binary decoded it
C18_Witness ==
  /\ fbTitle # NotRead
  /\ fbHistory # NotRead
  /\ fbDecoder = TopicDecoder("CBOR")
  /\ decodeMessage(fbDecoder, findNode.message, FALSE).value.error # Absent
  /\ "Sparkplug" \in findNode.message.sniff
  /\ findNode.message.outcome["Sparkplug"] = "error"
  /\ fbHistory.value.decoder = "Binary"


(***************************************************************************)
(* C19                                                                     *)
(***************************************************************************)
\* C19: no stale notification: whenever useDecoder is subscribed and no
\* deferred notification is pending, the binding it stores is the binding
\* cached in the view model; a deferred notification of a lazy resolution is
\* never delivered after the notification of a later override.
C19_NoStaleNotification ==
  ("setDecoder" \in listeners /\ timers = <<>>) => hookDecoder = _decoder


(***************************************************************************)
(* C20                                                                     *)
(***************************************************************************)
\* on a destroyed view model: a dispatch reaches no listener and none is
\* registered, and a read of decoder runs no resolution and schedules nothing
DestroyedStaysQuiet ==
  ~owner =>
    /\ listeners' = {}
    /\ notified' # Absent => notified'.to = {}
    /\ last'.op \in {"timer", "set", "release", "destroy", "retain"} =>
         hookDecoder' = hookDecoder
    /\ ReadStep => (~last'.ran /\ timers' = timers /\ _decoder' = _decoder)

C21_HistoryReflectsSent ==
  /\ panelAmended => pubEmitted # <<>>
  /\ Len(panelHistory) <= 8
  /\ \A i, j \in 1..Len(panelHistory) : panelHistory[i] = panelHistory[j] => i = j
  /\ panelAmended =>
       panelHistory[Len(panelHistory)] =
         [topic |-> panelProps.manualTopic, payload |-> panelProps.payload]

=============================================================================
